---- MODULE Spec2Model ----
(***************************************************************************)
(* pptx-builder: image placement geometry (place_picture_fit / _fill),      *)
(* deck assembly (build_presentation), input collection (list_images,      *)
(* detect_input_type), the overwrite guard (confirm_overwrite), PDF         *)
(* rasterization (convert_pdf_to_images, pdf_first_page_size_inches) and    *)
(* the command line (main, process_folder) of src/src/pptx_builder/core.py, *)
(* and process_files of src/src/pptx_builder/web.py.                        *)
(*                                                                         *)
(* Python floats are modelled as binary floating point numbers with        *)
(* MantBits bits of mantissa and round-to-nearest-even, the arithmetic of   *)
(* an IEEE double with the mantissa width scaled down; EMU lengths are      *)
(* integers, as python-pptx keeps them.                                     *)
(***************************************************************************)
EXTENDS Integers, Sequences, FiniteSets, TLC

VARIABLES
    images,      \* build_presentation(images, ...): sequence of source images
    sw_emu,      \* slide width in EMU   (core.py:213)
    sh_emu,      \* slide height in EMU  (core.py:214)
    mode,        \* "fit" or "fill"
    pc,          \* position of the build_presentation call
    slides,      \* prs.slides: sequence of slides, a slide is a sequence of pictures
    outfile,     \* file at output_path: absent, an older file, or the saved deck
    nsaves,      \* number of prs.save calls made
    raised,      \* exception that left build_presentation, or "none"
    parent_exists, \* whether the directory of output_path exists
    path,        \* the path handed to list_images / detect_input_type
    files,       \* whether list_images(path) was called, and its result
    kind,        \* result of detect_input_type(path), or "not_called"
    quiet,       \* args.quiet
    force,       \* args.force
    stdin,       \* lines the user will type, not yet read by input()
    prompts,     \* number of prompts shown by input()
    confirmed,   \* outcome of confirm_overwrite(path, quiet, force), or "not_called"
    pdf,         \* the PDF document at pdf_path: its pages and what is wrong with it
    temp_dirs,   \* directories made by tempfile.mkdtemp, in order of creation
    convert,     \* the convert_pdf_to_images call: position, locals, result
    size_in,     \* the pdf_first_page_size_inches call and its result
    page_numbers, \* two page numbers i < j
    page_names,  \* the file names convert_pdf_to_images gives pages i and j
    args,        \* main: the paths given with --input, or typed at the prompt
    cli,         \* main: position, inputs handled, messages printed, exit status
    web,         \* web.py process_files: arguments, position, locals, result
    server       \* web.py as a server: temp directories, TEMP_DIRS, concurrent calls

buildVars == <<images, sw_emu, sh_emu, mode, pc, slides, outfile, nsaves, raised,
               parent_exists>>
collectVars == <<path, files, kind>>
confirmVars == <<quiet, force, stdin, prompts, confirmed>>
convertVars == <<pdf, temp_dirs, convert, size_in>>
nameVars == <<page_numbers, page_names>>
cliVars == <<args, cli>>

\* Everything build_presentation does not touch
restVars == <<collectVars, confirmVars, convertVars, nameVars, cliVars, web, server>>

\* Everything list_images and detect_input_type do not touch
notCollectVars == <<buildVars, confirmVars, convertVars, nameVars, cliVars, web, server>>

\* Everything confirm_overwrite does not touch
notConfirmVars == <<buildVars, collectVars, convertVars, nameVars, cliVars, web, server>>

\* Everything convert_pdf_to_images and pdf_first_page_size_inches do not touch
notConvertVars == <<buildVars, collectVars, confirmVars, nameVars, cliVars, web, server>>

vars == <<buildVars, restVars>>

----------------------------------------------------------------------------
(* Bounds *)

MantBits == 14     \* mantissa bits of the modelled float (53 in an IEEE double)
MaxEmu == 13       \* largest image / slide length in EMU drawn by InitPlace
MaxImages == 3     \* longest image sequence drawn by Init
MaxEntries == 3    \* largest directory drawn by InitCollect
MaxLines == 2      \* most lines waiting on stdin drawn by InitConfirm
MaxPages == 3      \* most pages of a PDF drawn by InitConvert
MaxInputs == 2     \* most paths given to main drawn by InitCli
MaxUploads == 2    \* most files handed to process_files drawn by InitWeb
MaxCalls == 2      \* process_files calls running at the same time in InitServer

----------------------------------------------------------------------------
(* Floating point: a float is [m, e] standing for m * 2^e, with            *)
(* 2^(MantBits-1) <= |m| < 2^MantBits, or m = 0 and e = 0.                  *)

RECURSIVE Pow2R(_)
Pow2R(n) == IF n <= 0 THEN 1 ELSE 2 * Pow2R(n - 1)

\* 2^n, tabulated
Pow2Table == [n \in 0..30 |-> Pow2R(n)]

Pow2(n) == Pow2Table[n]

Abs(x) == IF x < 0 THEN -x ELSE x

Sgn(x) == IF x < 0 THEN -1 ELSE IF x = 0 THEN 0 ELSE 1

FZero == [m |-> 0, e |-> 0]

\* Scale n/d (n, d > 0) by powers of two until 2^(MantBits-1) <= n/d < 2^MantBits.
RECURSIVE Normalize(_, _, _)
Normalize(n, d, e) ==
    IF n >= d * Pow2(MantBits) THEN Normalize(n, 2 * d, e + 1)
    ELSE IF n < d * Pow2(MantBits - 1) THEN Normalize(2 * n, d, e - 1)
    ELSE <<n, d, e>>

\* The float nearest to (num/den) * 2^e, ties to even (den > 0).
RoundNearestEven(num, den, e) ==
    IF num = 0 THEN FZero
    ELSE LET t == Normalize(Abs(num), den, e)
             q == t[1] \div t[2]
             r == t[1] % t[2]
             up == 2 * r > t[2] \/ (2 * r = t[2] /\ q % 2 = 1)
             mm == IF up THEN q + 1 ELSE q
         IN  IF mm = Pow2(MantBits)
             THEN [m |-> Sgn(num) * Pow2(MantBits - 1), e |-> t[3] + 1]
             ELSE [m |-> Sgn(num) * mm, e |-> t[3]]

\* float(n) for an integer n
FromInt(n) == RoundNearestEven(n, 1, 0)

\* a / b, b # 0
FDiv(a, b) == RoundNearestEven(a.m * Sgn(b.m), Abs(b.m), a.e - b.e)

\* a * b
FMul(a, b) == RoundNearestEven(a.m * b.m, 1, a.e + b.e)

\* a - b
FSub(a, b) ==
    LET lo == IF a.e < b.e THEN a.e ELSE b.e
    IN  RoundNearestEven(a.m * Pow2(a.e - lo) - b.m * Pow2(b.e - lo), 1, lo)

\* a < b
FLess(a, b) ==
    LET lo == IF a.e < b.e THEN a.e ELSE b.e
    IN  a.m * Pow2(a.e - lo) < b.m * Pow2(b.e - lo)

\* Python min(a, b): b when b < a, else a
FMin(a, b) == IF FLess(b, a) THEN b ELSE a

\* Python max(a, b): b when b > a, else a
FMax(a, b) == IF FLess(a, b) THEN b ELSE a

\* int(x) of a float: truncation toward zero
ToInt(x) ==
    IF x.e >= 0 THEN x.m * Pow2(x.e)
    ELSE IF -x.e >= MantBits THEN 0
    ELSE Sgn(x.m) * (Abs(x.m) \div Pow2(-x.e))

----------------------------------------------------------------------------
(* Placement: place_picture_fit / place_picture_fill (core.py:132-187)      *)

\* slide.shapes.add_picture(path, left=0, top=0): the picture at natural size
add_picture(img) ==
    [image |-> img.id, left |-> 0, top |-> 0, width |-> img.w, height |-> img.h]

\* scale = min(sw / img_w, sh / img_h)
fit_scale_max(sw, sh, img_w, img_h) == FMax(FDiv(sw, img_w), FDiv(sh, img_h))

fit_scale(sw, sh, img_w, img_h) == FMin(FDiv(sw, img_w), FDiv(sh, img_h))

\* scale = max(sw / img_w, sh / img_h)
fill_scale(sw, sh, img_w, img_h) == FMax(FDiv(sw, img_w), FDiv(sh, img_h))

\* left = (sw - new_w) / 2.0
centre_clamped(s, new) ==
    LET c == FDiv(FSub(s, new), FromInt(2)) IN IF c.m < 0 THEN FZero ELSE c

centre(s, new) == FDiv(FSub(s, new), FromInt(2))

\* The body shared by the two placement functions once the scale is chosen:
\* new size, centring, and the four assignments to the picture.
set_geometry_stretched(pic, sw, sh, img_w, img_h, scale) ==
    LET new_w == FMul(img_w, FDiv(sw, img_w))
        new_h == FMul(img_h, FDiv(sh, img_h))
        left == centre(sw, new_w)
        top == centre(sh, new_h)
    IN  [pic EXCEPT !.left = ToInt(left), !.top = ToInt(top),
                    !.width = ToInt(new_w), !.height = ToInt(new_h)]

set_geometry(pic, sw, sh, img_w, img_h, scale) ==
    LET new_w == FMul(img_w, scale)
        new_h == FMul(img_h, scale)
        left == centre(sw, new_w)
        top == centre(sh, new_h)
    IN  [pic EXCEPT !.left = ToInt(left), !.top = ToInt(top),
                    !.width = ToInt(new_w), !.height = ToInt(new_h)]

\* A float division by 0.0 raises ZeroDivisionError before anything is assigned.
place_picture_fit(img, slide_w_emu, slide_h_emu) ==
    LET pic == add_picture(img)
        img_w == FromInt(pic.width)
        img_h == FromInt(pic.height)
        sw == FromInt(slide_w_emu)
        sh == FromInt(slide_h_emu)
    IN  IF img_w.m = 0 \/ img_h.m = 0
        THEN [raised |-> "ZeroDivisionError", pic |-> pic]
        ELSE [raised |-> "none",
              pic |-> set_geometry(pic, sw, sh, img_w, img_h,
                                   fit_scale(sw, sh, img_w, img_h))]

place_picture_fill(img, slide_w_emu, slide_h_emu) ==
    LET pic == add_picture(img)
        img_w == FromInt(pic.width)
        img_h == FromInt(pic.height)
        sw == FromInt(slide_w_emu)
        sh == FromInt(slide_h_emu)
    IN  IF img_w.m = 0 \/ img_h.m = 0
        THEN [raised |-> "ZeroDivisionError", pic |-> pic]
        ELSE [raised |-> "none",
              pic |-> set_geometry(pic, sw, sh, img_w, img_h,
                                   fill_scale(sw, sh, img_w, img_h))]

----------------------------------------------------------------------------
(* Deck assembly: build_presentation (core.py:199-227)                      *)

\* image_iter = tqdm(images, ...) if show_progress else images
image_iter_reversed(imgs) == [k \in 1..Len(imgs) |-> imgs[Len(imgs) + 1 - k]]

image_iter(imgs) == imgs

\* prs = Presentation(); slide size set (core.py:208-214)
Presentation ==
    /\ pc = "call"
    /\ slides' = <<>>
    /\ pc' = "loop"
    /\ UNCHANGED <<images, sw_emu, sh_emu, mode, outfile, nsaves, raised, parent_exists, restVars>>

\* One iteration of the loop: a blank slide is added and the next image is
\* placed on it (core.py:218-223).  An exception ends the call.
AddSlide_swallowing ==
    /\ pc = "loop"
    /\ Len(slides) < Len(image_iter(images))
    /\ \E res \in { IF mode = "fit"
                     THEN place_picture_fit(image_iter(images)[Len(slides) + 1],
                                            sw_emu, sh_emu)
                     ELSE place_picture_fill(image_iter(images)[Len(slides) + 1],
                                             sw_emu, sh_emu) } :
           /\ slides' = Append(slides, <<res.pic>>)
           /\ raised' = raised
           /\ pc' = "loop"
    /\ UNCHANGED <<images, sw_emu, sh_emu, mode, outfile, nsaves, parent_exists, restVars>>

AddSlide_drifting ==
    /\ pc = "loop"
    /\ Len(slides) < Len(image_iter(images))
    /\ \E res \in { IF mode = "fit"
                     THEN place_picture_fit(image_iter(images)[Len(slides) + 1],
                                            sw_emu, sh_emu)
                     ELSE place_picture_fill(image_iter(images)[Len(slides) + 1],
                                             sw_emu, sh_emu) } :
           /\ slides' = Append(slides, <<[res.pic EXCEPT !.left = @ + Len(slides)]>>)
           /\ raised' = res.raised
           /\ pc' = IF res.raised = "none" THEN "loop" ELSE "raised"
    /\ UNCHANGED <<images, sw_emu, sh_emu, mode, outfile, nsaves, parent_exists, restVars>>

AddSlide ==
    /\ pc = "loop"
    /\ Len(slides) < Len(image_iter(images))
    /\ \E res \in { IF mode = "fit"
                     THEN place_picture_fit(image_iter(images)[Len(slides) + 1],
                                            sw_emu, sh_emu)
                     ELSE place_picture_fill(image_iter(images)[Len(slides) + 1],
                                             sw_emu, sh_emu) } :
           /\ slides' = Append(slides, <<res.pic>>)
           /\ raised' = res.raised
           /\ pc' = IF res.raised = "none" THEN "loop" ELSE "raised"
    /\ UNCHANGED <<images, sw_emu, sh_emu, mode, outfile, nsaves, parent_exists, restVars>>

\* prs.save(str(output_path)) after the loop (core.py:227)
Save_inside_loop ==
    /\ pc = "loop"
    /\ nsaves < Len(slides) \/ Len(slides) = Len(image_iter(images))
    /\ parent_exists
    /\ outfile' = [content |-> "deck", slides |-> slides, width |-> sw_emu,
                   height |-> sh_emu, replaced |-> outfile.content]
    /\ nsaves' = nsaves + 1
    /\ pc' = IF Len(slides) = Len(image_iter(images)) THEN "done" ELSE "loop"
    /\ UNCHANGED <<images, sw_emu, sh_emu, mode, slides, raised, parent_exists, restVars>>

Save_skipping_empty ==
    /\ pc = "loop"
    /\ Len(slides) = Len(image_iter(images))
    /\ parent_exists
    /\ outfile' = IF slides = <<>> THEN outfile
                  ELSE [content |-> "deck", slides |-> slides, width |-> sw_emu,
                        height |-> sh_emu, replaced |-> outfile.content]
    /\ nsaves' = IF slides = <<>> THEN nsaves ELSE nsaves + 1
    /\ pc' = "done"
    /\ UNCHANGED <<images, sw_emu, sh_emu, mode, slides, raised, parent_exists, restVars>>

Save_creating_parents ==
    /\ pc = "loop"
    /\ Len(slides) = Len(image_iter(images))
    /\ parent_exists' = TRUE
    /\ outfile' = [content |-> "deck", slides |-> slides, width |-> sw_emu,
                   height |-> sh_emu, replaced |-> outfile.content]
    /\ nsaves' = nsaves + 1
    /\ pc' = "done"
    /\ UNCHANGED <<images, sw_emu, sh_emu, mode, slides, raised, restVars>>

\* The deck is written (a zip archive is opened for writing at output_path,
\* replacing what is there) when the directory of output_path exists.
Save ==
    /\ pc = "loop"
    /\ Len(slides) = Len(image_iter(images))
    /\ parent_exists
    /\ outfile' = [content |-> "deck", slides |-> slides, width |-> sw_emu,
                   height |-> sh_emu, replaced |-> outfile.content]
    /\ nsaves' = nsaves + 1
    /\ pc' = "done"
    /\ UNCHANGED <<images, sw_emu, sh_emu, mode, slides, raised, parent_exists, restVars>>

\* prs.save on a path whose directory is missing: opening the archive fails,
\* nothing is created, the error leaves build_presentation (core.py:227).
SaveFails ==
    /\ pc = "loop"
    /\ Len(slides) = Len(image_iter(images))
    /\ ~parent_exists
    /\ raised' = "FileNotFoundError"
    /\ pc' = "raised"
    /\ UNCHANGED <<images, sw_emu, sh_emu, mode, slides, outfile, nsaves, parent_exists,
                   restVars>>

----------------------------------------------------------------------------
(* Inputs *)

\* Source images: id stands for the file path, w and h for the natural size
\* python-pptx reports in EMU.  Images 4 and 5 are degenerate.
ImagePool ==
    { [id |-> 1, w |-> 4, h |-> 2],
      [id |-> 2, w |-> 3, h |-> 5],
      [id |-> 3, w |-> 11, h |-> 1],
      [id |-> 4, w |-> 0, h |-> 4],
      [id |-> 5, w |-> 2, h |-> 0] }

\* Slide sizes in EMU, <<width, height>>
CanvasPool == { <<8, 6>>, <<5, 13>> }

\* What is at output_path before any deck is saved there
NoDeck(c) == [content |-> c, slides |-> <<>>, width |-> 0, height |-> 0,
              replaced |-> "none"]

SeqsUpTo(S, n) == UNION { [1..k -> S] : k \in 0..n }

CollectIdle ==
    /\ path = [type |-> "missing", name |-> <<>>, entries |-> <<>>]
    /\ files = [called |-> FALSE, result |-> <<>>]
    /\ kind = "not_called"

ConfirmIdle ==
    /\ quiet = FALSE
    /\ force = FALSE
    /\ stdin = <<>>
    /\ prompts = 0
    /\ confirmed = "not_called"

NoPdf == [pages |-> <<>>, corrupt |-> FALSE, bad_page |-> 0]

NotConverted ==
    [pc |-> "idle", temp_dir |-> 0, pages |-> <<>>, out_paths |-> <<>>, e |-> "none",
     raised |-> "none", cause |-> "none"]

SizeNotAsked == [called |-> FALSE, raised |-> "none", w_in |-> FZero, h_in |-> FZero]

ConvertIdle ==
    /\ pdf = NoPdf
    /\ temp_dirs = <<>>
    /\ convert = NotConverted
    /\ size_in = SizeNotAsked

NamesIdle ==
    /\ page_numbers = <<0, 0>>
    /\ page_names = <<>>

NoUpload ==
    [pc |-> "idle", files |-> <<>>, slide_size |-> <<1, 1>>, width_in |-> 0,
     height_in |-> 0, fit_mode |-> "fit", k |-> 0, temp_dir |-> FALSE, image_files |-> <<>>, output |-> "None", raised |-> "none"]

WebIdle == web = NoUpload

NoServer == [pc |-> "idle", tmp |-> <<>>, TEMP_DIRS |-> <<>>, calls |-> <<>>]

ServerIdle == server = NoServer

NoRun ==
    [pc |-> "idle", k |-> 0, status |-> 0, messages |-> <<>>, converted |-> <<>>,
     decks |-> <<>>, visited |-> <<>>, warned |-> <<>>]

CliIdle ==
    /\ args = [input |-> <<>>, interactive |-> FALSE, recursive |-> FALSE]
    /\ cli = NoRun

BuildEntry ==
    /\ mode \in {"fit", "fill"}
    /\ pc = "call"
    /\ slides = <<>>
    /\ nsaves = 0
    /\ raised = "none"

\* A call of build_presentation on any short sequence over the image pool
Init ==
    /\ images \in SeqsUpTo(ImagePool, MaxImages)
    /\ \E c \in CanvasPool : sw_emu = c[1] /\ sh_emu = c[2]
    /\ parent_exists \in BOOLEAN
    /\ outfile \in {NoDeck(c) : c \in IF parent_exists THEN {"absent", "existing"}
                                      ELSE {"absent"}}
    /\ BuildEntry
    /\ CollectIdle
    /\ ConfirmIdle
    /\ ConvertIdle
    /\ NamesIdle
    /\ CliIdle
    /\ WebIdle
    /\ ServerIdle

\* A call of build_presentation on one image, all sizes up to MaxEmu
InitPlace ==
    /\ \E iw \in 0..MaxEmu, ih \in 0..MaxEmu : images = <<[id |-> 1, w |-> iw, h |-> ih]>>
    /\ sw_emu \in 1..MaxEmu
    /\ sh_emu \in 1..MaxEmu
    /\ parent_exists = TRUE
    /\ outfile = NoDeck("absent")
    /\ BuildEntry
    /\ CollectIdle
    /\ ConfirmIdle
    /\ ConvertIdle
    /\ NamesIdle
    /\ CliIdle
    /\ WebIdle
    /\ ServerIdle

Next == Presentation \/ AddSlide \/ Save \/ SaveFails

NextPlace == Presentation \/ AddSlide \/ Save

Spec == Init /\ [][Next]_vars

SpecPlace == InitPlace /\ [][NextPlace]_vars

----------------------------------------------------------------------------
(* Properties of placement *)

\* The slides whose picture has received its final geometry
PlacedSlides == { k \in 1..Len(slides) : k < Len(slides) \/ raised = "none" }

Pic(k) == slides[k][1]

\* C1: under fit, a placed picture of a non-degenerate image is no wider and
\* no taller than the slide.
C1_FitInsideCanvas ==
    \A k \in PlacedSlides :
        mode = "fit" => Pic(k).width <= sw_emu /\ Pic(k).height <= sh_emu

C1_Witness ==
    /\ mode = "fit" /\ PlacedSlides = {1}
    /\ images[1].w > sw_emu /\ images[1].h > sh_emu
    /\ Pic(1).width = sw_emu /\ Pic(1).height < sh_emu /\ Pic(1).height > 0

\* C2: under fill, a placed picture is at least as wide and as tall as the
\* slide, in integer EMU.
C2_FillCoversCanvas ==
    \A k \in PlacedSlides :
        mode = "fill" => Pic(k).width >= sw_emu /\ Pic(k).height >= sh_emu

\* C3: in both modes the placed size is within one EMU per axis of a rectangle
\* with exactly the image's aspect ratio (|w*ih - h*iw| <= iw + ih).
C3_AspectRatioKept ==
    \A k \in PlacedSlides :
        Abs(Pic(k).width * images[k].h - Pic(k).height * images[k].w)
            <= images[k].w + images[k].h

C3_Witness ==
    /\ PlacedSlides = {1}
    /\ images[1].w # images[1].h
    /\ sw_emu * images[1].h # sh_emu * images[1].w
    /\ Pic(1).width # images[1].w
    /\ Pic(1).width * images[1].h = Pic(1).height * images[1].w

\* C4: on the limiting axis (the smaller ratio under fit, the larger under
\* fill) the placed dimension equals the slide dimension.
C4_LimitingAxisEqualsCanvas ==
    \A k \in PlacedSlides :
        LET widthLimits ==
                IF mode = "fit"
                THEN sw_emu * images[k].h <= sh_emu * images[k].w
                ELSE sw_emu * images[k].h >= sh_emu * images[k].w
        IN  IF widthLimits THEN Pic(k).width = sw_emu ELSE Pic(k).height = sh_emu

\* C5: the picture is centred (the two margins of an axis differ by the
\* truncation of the offset and of the size only); offsets are >= 0 under fit
\* and <= 0 under fill, negative offsets being kept.
C5_Centred ==
    \A k \in PlacedSlides :
        /\ sw_emu - 2 * Pic(k).left - Pic(k).width \in -1..2
        /\ sh_emu - 2 * Pic(k).top - Pic(k).height \in -1..2
        /\ mode = "fit" => Pic(k).left >= 0 /\ Pic(k).top >= 0
        /\ mode = "fill" => Pic(k).left <= 0 /\ Pic(k).top <= 0

C5_Witness ==
    /\ mode = "fill" /\ PlacedSlides = {1}
    /\ Pic(1).left < 0 /\ Pic(1).top = 0
    /\ Pic(1).width > sw_emu
    /\ sw_emu - 2 * Pic(1).left - Pic(1).width = 0

----------------------------------------------------------------------------
(* Properties of deck assembly *)

Degenerate(img) == img.w = 0 \/ img.h = 0

\* C6: an image of width 0 or height 0 makes placement raise before any
\* geometry is assigned; the exception leaves build_presentation, which
\* saves nothing.
C6_DegenerateImageFails ==
    \A k \in 1..Len(slides) :
        Degenerate(images[k]) =>
            /\ k = Len(slides)
            /\ pc = "raised" /\ raised = "ZeroDivisionError"
            /\ Pic(k) = add_picture(images[k])
            /\ nsaves = 0 /\ outfile.content # "deck"

C6_Witness ==
    /\ pc = "raised" /\ Len(slides) = 3
    /\ ~Degenerate(images[1]) /\ ~Degenerate(images[2]) /\ images[3].h = 0
    /\ Pic(2).width # images[2].w

\* C9: a finished build saved exactly one slide per image, slide k holding
\* exactly one picture, of the k-th image of the input.
C9_OneSlidePerImageInOrder ==
    /\ \A k \in 1..Len(slides) : Len(slides[k]) = 1 /\ Pic(k).image = images[k].id
    /\ pc = "done" =>
        /\ outfile.content = "deck"
        /\ Len(outfile.slides) = Len(images)
        /\ \A k \in 1..Len(images) :
              Len(outfile.slides[k]) = 1 /\ outfile.slides[k][1].image = images[k].id

C9_Witness ==
    /\ pc = "done" /\ Len(outfile.slides) = 3
    /\ images[1].id > images[2].id /\ images[2].id = images[3].id

\* C10: the deck is saved exactly once per finished call, the save comes
\* after the last image was placed, and nothing is added after it.
C10_SavedOnceAfterAllSlides ==
    /\ [](nsaves <= 1 /\ (pc = "done" <=> nsaves = 1))
    /\ [][nsaves' # nsaves =>
            /\ Len(slides) = Len(images) /\ PlacedSlides = 1..Len(images)
            /\ slides' = slides /\ outfile'.slides = slides]_vars
    /\ [][nsaves = 1 => slides' = slides /\ outfile' = outfile]_vars

C10_Witness ==
    /\ pc = "done" /\ nsaves = 1 /\ Len(images) = 3 /\ Len(outfile.slides) = 3

\* C11: a build on an empty image sequence still writes a deck at the
\* destination, with no slide and the slide size set on the presentation.
C11_EmptyDeckWritten ==
    (images = <<>> /\ parent_exists /\ pc # "call") =>
        /\ pc = "loop" \/ pc = "done"
        /\ pc = "done" =>
              /\ outfile.content = "deck" /\ outfile.slides = <<>>
              /\ outfile.width = sw_emu /\ outfile.height = sh_emu

C11_Witness ==
    /\ images = <<>> /\ pc = "done"
    /\ outfile.content = "deck" /\ outfile.slides = <<>> /\ outfile.replaced = "absent"
    /\ outfile.width = 5 /\ outfile.height = 13

\* C12 as claimed: whenever all images were placed, the deck ends up at the
\* destination, missing parent directories being created.
C12_SavedCreatingParents ==
    (Len(slides) = Len(images) /\ raised # "ZeroDivisionError" /\ pc \in {"done", "raised"})
        => outfile.content = "deck" /\ parent_exists

\* C12 amended: with the directory of the destination present the deck
\* replaces whatever file is there, no overwrite guard being consulted; with
\* it missing the save fails with FileNotFoundError and creates nothing.
C12_SavedOverExistingFile ==
    /\ [][(pc = "loop" /\ pc' = "done") =>
            /\ parent_exists
            /\ outfile'.content = "deck" /\ outfile'.slides = slides
            /\ outfile'.replaced = outfile.content]_vars
    /\ [](~parent_exists =>
            /\ outfile = NoDeck("absent") /\ pc # "done"
            /\ (pc = "raised" /\ raised # "ZeroDivisionError")
                   => raised = "FileNotFoundError" /\ Len(slides) = Len(images))
    /\ [][parent_exists' = parent_exists]_vars

C12_Witness ==
    /\ pc = "done" /\ outfile.content = "deck" /\ outfile.replaced = "existing"
    /\ Len(outfile.slides) = 2

----------------------------------------------------------------------------
(* Input collection: list_images, detect_input_type (core.py:118-123,       *)
(* 294-303).  A file name is a sequence of characters.                      *)

\* Code points of the characters used in names
Ord ==
    " " :> 32 @@ "Y" :> 89 @@ "_" :> 95 @@ "e" :> 101 @@ "y" :> 121 @@
    "4" :> 52 @@ "5" :> 53 @@ "6" :> 54 @@ "7" :> 55 @@ "8" :> 56 @@ "9" :> 57 @@
    "." :> 46 @@ "0" :> 48 @@ "1" :> 49 @@ "2" :> 50 @@ "3" :> 51 @@ "A"
    :> 65 @@ "B" :> 66 @@ "D" :> 68 @@ "F" :> 70 @@ "G" :> 71 @@ "J" :> 74
    @@ "N" :> 78 @@ "P" :> 80 @@ "a" :> 97 @@ "b" :> 98 @@ "d" :> 100 @@
    "f" :> 102 @@ "g" :> 103 @@ "i" :> 105 @@ "j" :> 106 @@ "n" :> 110 @@
    "p" :> 112 @@ "s" :> 115 @@ "t" :> 116 @@ "u" :> 117 @@ "x" :> 120

\* str.lower() on one character
lower_char(c) ==
    IF Ord[c] \in 65..90 THEN CHOOSE d \in DOMAIN Ord : Ord[d] = Ord[c] + 32 ELSE c

\* str.lower()
lower(str) == [i \in 1..Len(str) |-> lower_char(str[i])]

\* Python's str comparison a < b: by code point, a proper prefix is smaller
RECURSIVE str_less(_, _)
str_less(a, b) ==
    IF b = <<>> THEN FALSE
    ELSE IF a = <<>> THEN TRUE
    ELSE IF Ord[Head(a)] # Ord[Head(b)] THEN Ord[Head(a)] < Ord[Head(b)]
    ELSE str_less(Tail(a), Tail(b))

\* ALLOWED_EXTS (core.py:51-63)
ALLOWED_EXTS ==
    { <<".", "p", "n", "g">>,
      <<".", "j", "p", "g">>,
      <<".", "j", "p", "e", "g">>,
      <<".", "t", "i", "f">>,
      <<".", "t", "i", "f", "f">>,
      <<".", "w", "e", "b", "p">>,
      <<".", "b", "m", "p">>,
      <<".", "g", "i", "f">>,
      <<".", "i", "c", "o">>,
      <<".", "h", "e", "i", "c">>,
      <<".", "h", "e", "i", "f">> }

\* Path.suffix: the name from its last dot on, unless that dot is the first
\* or the last character of the name or there is no dot
suffix(name) ==
    LET dots == { i \in 1..Len(name) : name[i] = "." }
        last == CHOOSE i \in dots : \A j \in dots : j <= i
    IN  IF dots = {} THEN <<>>
        ELSE IF 1 < last /\ last < Len(name) THEN SubSeq(name, last, Len(name))
        ELSE <<>>

\* p.is_file() and p.suffix.lower() in ALLOWED_EXTS
is_image(p) == p.type = "file" /\ lower(suffix(p.name)) \in ALLOWED_EXTS

\* key=lambda p: p.name.lower()
sort_key_cased(p) == p.name

sort_key(p) == lower(p.name)

\* list.sort(key=...): stable, ascending
RECURSIVE insert_sorted(_, _)
insert_sorted(x, sorted) ==
    IF sorted = <<>> THEN <<x>>
    ELSE IF str_less(sort_key(x), sort_key(Head(sorted))) THEN <<x>> \o sorted
    ELSE <<Head(sorted)>> \o insert_sorted(x, Tail(sorted))

RECURSIVE sort(_)
sort(seq) ==
    IF seq = <<>> THEN <<>>
    ELSE insert_sorted(seq[Len(seq)], sort(SubSeq(seq, 1, Len(seq) - 1)))

\* list_images(folder): folder.iterdir() filtered, then sorted
list_images(folder) == sort(SelectSeq(folder.entries, is_image))

\* detect_input_type(path)
detect_input_type_any_dir(p) ==
    IF p.type = "file" /\ lower(suffix(p.name)) = <<".", "p", "d", "f">> THEN "pdf"
    ELSE IF p.type = "dir" THEN "folder"
    ELSE "unknown"

detect_input_type_pdf_dir(p) ==
    IF p.type = "file" /\ lower(suffix(p.name)) = <<".", "p", "d", "f">> THEN "pdf"
    ELSE IF p.type = "dir" /\ (list_images(p) # <<>> \/ \E x \in 1..Len(p.entries) :
                 lower(suffix(p.entries[x].name)) = <<".", "p", "d", "f">>) THEN "folder"
    ELSE "unknown"

detect_input_type(p) ==
    IF p.type = "file" /\ lower(suffix(p.name)) = <<".", "p", "d", "f">> THEN "pdf"
    ELSE IF p.type = "dir" /\ list_images(p) # <<>> THEN "folder"
    ELSE "unknown"

\* Directory entries to draw from: name and type, in no particular order
EntryPool ==
    { [name |-> <<"i", "1", "0", ".", "p", "n", "g">>, type |-> "file"],
      [name |-> <<"i", "2", ".", "P", "N", "G">>, type |-> "file"],
      [name |-> <<"B", ".", "j", "p", "g">>, type |-> "file"],
      [name |-> <<"a", ".", "p", "n", "g">>, type |-> "file"],
      [name |-> <<"A", ".", "p", "n", "g">>, type |-> "file"],
      [name |-> <<"n", ".", "t", "x", "t">>, type |-> "file"],
      [name |-> <<"d", ".", "p", "d", "f">>, type |-> "file"],
      [name |-> <<"s", ".", "p", "n", "g">>, type |-> "dir"],
      [name |-> <<"s", "u", "b">>, type |-> "dir"],
      [name |-> <<".", "p", "n", "g">>, type |-> "file"] }

\* Names of single files handed to detect_input_type
FileNamePool == { <<"d", ".", "p", "d", "f">>, <<"D", ".", "P", "D", "F">>, <<"n", ".", "t", "x", "t">>, <<"a", ".", "p", "n", "g">>, <<".", "p", "d", "f">> }

\* What iterdir() may yield: distinct names, any order
DirListings ==
    { l \in SeqsUpTo(EntryPool, MaxEntries) :
        \A i, j \in 1..Len(l) : i # j => l[i].name # l[j].name }

BuildIdle ==
    /\ images = <<>>
    /\ sw_emu = 1
    /\ sh_emu = 1
    /\ mode = "fit"
    /\ pc = "idle"
    /\ slides = <<>>
    /\ outfile = NoDeck("absent")
    /\ parent_exists = TRUE
    /\ nsaves = 0
    /\ raised = "none"

InitCollect ==
    /\ BuildIdle
    /\ \/ \E l \in DirListings, n \in {<<"s", "u", "b">>, <<"d", ".", "p", "d", "f">>} :
             path = [type |-> "dir", name |-> n, entries |-> l]
       \/ \E n \in FileNamePool : path = [type |-> "file", name |-> n, entries |-> <<>>]
       \/ path = [type |-> "missing", name |-> <<"d", ".", "p", "d", "f">>, entries |-> <<>>]
    /\ files = [called |-> FALSE, result |-> <<>>]
    /\ kind = "not_called"
    /\ ConfirmIdle
    /\ ConvertIdle
    /\ NamesIdle
    /\ CliIdle
    /\ WebIdle
    /\ ServerIdle

\* A call list_images(path) on a directory
ListImages ==
    /\ path.type = "dir"
    /\ ~files.called
    /\ files' = [called |-> TRUE, result |-> list_images(path)]
    /\ UNCHANGED <<path, kind, notCollectVars>>

\* A call detect_input_type(path)
DetectInputType ==
    /\ kind = "not_called"
    /\ kind' = detect_input_type(path)
    /\ UNCHANGED <<path, files, notCollectVars>>

NextCollect == ListImages \/ DetectInputType

SpecCollect == InitCollect /\ [][NextCollect]_vars

----------------------------------------------------------------------------
(* Properties of input collection *)

\* The name ends, ignoring case, in ext, with at least one character before it
EndsWithExt(name, ext) ==
    /\ Len(name) > Len(ext)
    /\ lower(SubSeq(name, Len(name) - Len(ext) + 1, Len(name))) = ext

SupportedImage(p) == p.type = "file" /\ \E ext \in ALLOWED_EXTS : EndsWithExt(p.name, ext)

\* C7: list_images returns exactly the regular files of the directory with a
\* supported extension (case-insensitive), each once, in ascending order of
\* the lower-cased name.
C7_ListImagesFilteredSorted ==
    files.called =>
        LET r == files.result
        IN  /\ { r[i] : i \in 1..Len(r) }
                 = { path.entries[i] : i \in { j \in 1..Len(path.entries) :
                                                  SupportedImage(path.entries[j]) } }
            /\ \A i, j \in 1..Len(r) : i # j => r[i] # r[j]
            /\ \A i, j \in 1..Len(r) :
                  i < j => ~str_less(lower(r[j].name), lower(r[i].name))

C7_Witness ==
    /\ files.called
    /\ Len(path.entries) = 3
    /\ path.entries[1].name = <<"i", "2", ".", "P", "N", "G">>
    /\ path.entries[2].type = "dir" /\ path.entries[2].name = <<"s", ".", "p", "n", "g">>
    /\ path.entries[3].name = <<"i", "1", "0", ".", "p", "n", "g">>
    /\ files.result = <<path.entries[3], path.entries[1]>>

\* C8: detect_input_type answers "pdf" exactly for a regular file whose
\* extension is .pdf in any case, "folder" exactly for a directory holding
\* at least one supported image file, and "unknown" otherwise.
C8_DetectInputType ==
    kind # "not_called" =>
        LET isPdf == path.type = "file" /\ EndsWithExt(path.name, <<".", "p", "d", "f">>)
            isFolder == /\ path.type = "dir"
                        /\ \E i \in 1..Len(path.entries) : SupportedImage(path.entries[i])
        IN  /\ kind = "pdf" <=> isPdf
            /\ kind = "folder" <=> isFolder
            /\ kind = "unknown" <=> ~isPdf /\ ~isFolder

C8_Witness ==
    /\ kind = "unknown"
    /\ path.type = "dir"
    /\ Len(path.entries) = 3
    /\ path.entries[1].name = <<"d", ".", "p", "d", "f">>
    /\ path.entries[2].type = "dir" /\ path.entries[2].name = <<"s", ".", "p", "n", "g">>
    /\ path.entries[3].name = <<"n", ".", "t", "x", "t">>

----------------------------------------------------------------------------
(* Overwrite guard: confirm_overwrite (core.py:190-196) *)

Whitespace == { " " }

\* str.lstrip() / str.rstrip() / str.strip()
RECURSIVE lstrip(_)
lstrip(str) == IF str # <<>> /\ Head(str) \in Whitespace THEN lstrip(Tail(str)) ELSE str

RECURSIVE rstrip(_)
rstrip(str) ==
    IF str # <<>> /\ str[Len(str)] \in Whitespace THEN rstrip(SubSeq(str, 1, Len(str) - 1))
    ELSE str

strip(str) == rstrip(lstrip(str))

confirm_overwrite_unstripped(p, q, f, lines) ==
    IF p.type = "missing" THEN [result |-> "True", prompted |-> FALSE, stdin |-> lines]
    ELSE IF q \/ f THEN [result |-> "True", prompted |-> FALSE, stdin |-> lines]
    ELSE IF lines = <<>> THEN [result |-> "EOFError", prompted |-> TRUE, stdin |-> lines]
    ELSE LET reply == lower(Head(lines))
         IN  [result |-> IF reply = <<"y">> THEN "True" ELSE "False",
              prompted |-> TRUE, stdin |-> Tail(lines)]

confirm_overwrite_any_reply(p, q, f, lines) ==
    IF p.type = "missing" THEN [result |-> "True", prompted |-> FALSE, stdin |-> lines]
    ELSE IF q \/ f THEN [result |-> "True", prompted |-> FALSE, stdin |-> lines]
    ELSE IF lines = <<>> THEN [result |-> "EOFError", prompted |-> TRUE, stdin |-> lines]
    ELSE [result |-> "True", prompted |-> TRUE, stdin |-> Tail(lines)]

\* confirm_overwrite(path, quiet, force) with lines waiting on stdin: the
\* value returned (or EOFError when input() finds stdin closed), whether the
\* prompt was shown, and what is left on stdin
confirm_overwrite(p, q, f, lines) ==
    IF p.type = "missing" THEN [result |-> "True", prompted |-> FALSE, stdin |-> lines]
    ELSE IF q \/ f THEN [result |-> "True", prompted |-> FALSE, stdin |-> lines]
    ELSE IF lines = <<>> THEN [result |-> "EOFError", prompted |-> TRUE, stdin |-> lines]
    ELSE LET reply == lower(strip(Head(lines)))
         IN  [result |-> IF reply = <<"y">> THEN "True" ELSE "False",
              prompted |-> TRUE, stdin |-> Tail(lines)]

\* Lines a user may type at the prompt
ReplyPool ==
    { <<"y">>, <<"Y">>, <<" ", "y", " ">>, <<"y", "e", "s">>, <<"n">>, <<>>,
      <<"y", " ", "y">>, <<" ">> }

\* A call confirm_overwrite(path, quiet, force) for any destination and flags
InitConfirm ==
    /\ BuildIdle
    /\ \/ path = [type |-> "missing", name |-> <<"d", ".", "p", "p", "t", "x">>,
                  entries |-> <<>>]
       \/ path = [type |-> "file", name |-> <<"d", ".", "p", "p", "t", "x">>,
                  entries |-> <<>>]
    /\ files = [called |-> FALSE, result |-> <<>>]
    /\ kind = "not_called"
    /\ quiet \in BOOLEAN
    /\ force \in BOOLEAN
    /\ stdin \in SeqsUpTo(ReplyPool, MaxLines)
    /\ prompts = 0
    /\ confirmed = "not_called"
    /\ ConvertIdle
    /\ NamesIdle
    /\ CliIdle
    /\ WebIdle
    /\ ServerIdle

ConfirmOverwrite ==
    /\ confirmed = "not_called"
    /\ \E r \in { confirm_overwrite(path, quiet, force, stdin) } :
          /\ confirmed' = r.result
          /\ prompts' = IF r.prompted THEN prompts + 1 ELSE prompts
          /\ stdin' = r.stdin
    /\ UNCHANGED <<quiet, force, notConfirmVars>>

NextConfirm == ConfirmOverwrite

SpecConfirm == InitConfirm /\ [][NextConfirm]_vars

\* The typed line is y or Y, possibly with blanks around it
Affirmative(line) ==
    \E i \in 1..Len(line) :
        /\ line[i] \in {"y", "Y"}
        /\ \A j \in 1..Len(line) : j # i => line[j] = " "

\* C13: confirm_overwrite returns true without prompting when the path does
\* not exist, or force is true, or quiet is true; otherwise it prompts exactly
\* once (reading one line) and returns true for an affirmative reply and
\* false for any other reply.
C13_ConfirmOverwrite ==
    [][(confirmed = "not_called" /\ confirmed' # "not_called") =>
          IF path.type = "missing" \/ force \/ quiet
          THEN confirmed' = "True" /\ prompts' = prompts /\ stdin' = stdin
          ELSE /\ prompts' = prompts + 1
               /\ stdin # <<>> =>
                     /\ stdin' = Tail(stdin)
                     /\ confirmed' = IF Affirmative(Head(stdin)) THEN "True" ELSE "False"
               /\ stdin = <<>> => confirmed' # "True"]_vars

C13_Witness ==
    /\ confirmed = "True" /\ prompts = 1
    /\ path.type = "file" /\ ~quiet /\ ~force
    /\ stdin = << <<"n">> >>

----------------------------------------------------------------------------
(* PDF rasterization: convert_pdf_to_images, pdf_first_page_size_inches     *)
(* (core.py:306-364).  A PDF is its sequence of page rectangles in points;   *)
(* a corrupt PDF makes convert_from_path and fitz.open raise, bad_page = k   *)
(* makes page.save of page k raise.                                          *)

PadWidth == 4             \* f"page_{i:04d}.png"
PointsPerInch == 72       \* p0.rect.width / 72.0

DigitChar == <<"0", "1", "2", "3", "4", "5", "6", "7", "8", "9">>

\* str(n) for n >= 0
RECURSIVE digits(_)
digits(n) ==
    IF n < 10 THEN <<DigitChar[n + 1]>> ELSE digits(n \div 10) \o <<DigitChar[(n % 10) + 1]>>

\* Left padding with zeros to at least width characters
RECURSIVE zfill(_, _)
zfill(str, width) == IF Len(str) >= width THEN str ELSE zfill(<<"0">> \o str, width)

\* f"page_{i:04d}.png"
page_name(i) ==
    <<"p", "a", "g", "e", "_">> \o zfill(digits(i), PadWidth) \o <<".", "p", "n", "g">>

\* The temp directory d with the file name added (again) / removed altogether
WriteFile(dirs, d, name) ==
    [dirs EXCEPT ![d].files = IF \E k \in 1..Len(@) : @[k] = name THEN @ ELSE Append(@, name)]

rmtree(dirs, d) == [dirs EXCEPT ![d] = [exists |-> FALSE, files |-> <<>>]]

\* temp_dir = Path(tempfile.mkdtemp(prefix="pptx_pdf_"))
Mkdtemp ==
    /\ convert.pc = "call"
    /\ temp_dirs' = Append(temp_dirs, [exists |-> TRUE, files |-> <<>>])
    /\ convert' = [convert EXCEPT !.pc = "try", !.temp_dir = Len(temp_dirs) + 1]
    /\ UNCHANGED <<pdf, size_in, notConvertVars>>

\* pages = convert_from_path(...): one rendered page per page of the PDF
ConvertFromPath ==
    /\ convert.pc = "try"
    /\ convert' = IF pdf.corrupt
                  THEN [convert EXCEPT !.pc = "except", !.e = "PDFSyntaxError"]
                  ELSE [convert EXCEPT !.pc = "loop",
                                       !.pages = [k \in 1..Len(pdf.pages) |-> k]]
    /\ UNCHANGED <<pdf, temp_dirs, size_in, notConvertVars>>

\* One turn of the loop over enumerate(pages, start=1); a failing page.save
\* may leave a partial file behind
SavePage ==
    /\ convert.pc = "loop"
    /\ Len(convert.out_paths) < Len(convert.pages)
    /\ LET i == Len(convert.out_paths) + 1
           out_path == [dir |-> convert.temp_dir, name |-> page_name(i)]
       IN  IF pdf.bad_page = i
           THEN /\ \E partial \in BOOLEAN :
                      temp_dirs' = IF partial
                                   THEN WriteFile(temp_dirs, out_path.dir, out_path.name)
                                   ELSE temp_dirs
                /\ convert' = [convert EXCEPT !.pc = "except", !.e = "OSError"]
           ELSE /\ temp_dirs' = WriteFile(temp_dirs, out_path.dir, out_path.name)
                /\ convert' = [convert EXCEPT !.out_paths = Append(@, out_path)]
    /\ UNCHANGED <<pdf, size_in, notConvertVars>>

\* return out_paths
ReturnPaths ==
    /\ convert.pc = "loop"
    /\ Len(convert.out_paths) = Len(convert.pages)
    /\ convert' = [convert EXCEPT !.pc = "returned"]
    /\ UNCHANGED <<pdf, temp_dirs, size_in, notConvertVars>>

HandleFailure_keeping_files ==
    /\ convert.pc = "except"
    /\ temp_dirs' = temp_dirs
    /\ convert' = [convert EXCEPT !.pc = "raised", !.raised = "RuntimeError",
                                  !.cause = convert.e]
    /\ UNCHANGED <<pdf, size_in, notConvertVars>>

\* except Exception as e: remove the temp directory, raise RuntimeError
HandleFailure ==
    /\ convert.pc = "except"
    /\ temp_dirs' = IF temp_dirs[convert.temp_dir].exists
                    THEN rmtree(temp_dirs, convert.temp_dir)
                    ELSE temp_dirs
    /\ convert' = [convert EXCEPT !.pc = "raised", !.raised = "RuntimeError",
                                  !.cause = convert.e]
    /\ UNCHANGED <<pdf, size_in, notConvertVars>>

\* The literals 13.3333 and 7.5
FallbackSize == <<RoundNearestEven(133333, 10000, 0), RoundNearestEven(15, 2, 0)>>

pdf_first_page_size_inches_last_page(doc) ==
    IF doc.corrupt THEN [called |-> TRUE, raised |-> "FileDataError", w_in |-> FZero,
                         h_in |-> FZero]
    ELSE IF Len(doc.pages) = 0
    THEN [called |-> TRUE, raised |-> "none", w_in |-> FallbackSize[1],
          h_in |-> FallbackSize[2]]
    ELSE LET p0 == doc.pages[Len(doc.pages)]
         IN  [called |-> TRUE, raised |-> "none",
              w_in |-> FDiv(FromInt(p0.w), FromInt(PointsPerInch)),
              h_in |-> FDiv(FromInt(p0.h), FromInt(PointsPerInch))]

\* pdf_first_page_size_inches(pdf_path)
pdf_first_page_size_inches(doc) ==
    IF doc.corrupt THEN [called |-> TRUE, raised |-> "FileDataError", w_in |-> FZero,
                         h_in |-> FZero]
    ELSE IF Len(doc.pages) = 0
    THEN [called |-> TRUE, raised |-> "none", w_in |-> FallbackSize[1],
          h_in |-> FallbackSize[2]]
    ELSE LET p0 == doc.pages[1]
         IN  [called |-> TRUE, raised |-> "none",
              w_in |-> FDiv(FromInt(p0.w), FromInt(PointsPerInch)),
              h_in |-> FDiv(FromInt(p0.h), FromInt(PointsPerInch))]

PdfFirstPageSizeInches ==
    /\ ~size_in.called
    /\ size_in' = pdf_first_page_size_inches(pdf)
    /\ UNCHANGED <<pdf, temp_dirs, convert, notConvertVars>>

\* Page rectangles in points: US letter, 16:9, A4 rounded
RectPool == { [w |-> 612, h |-> 792], [w |-> 960, h |-> 540], [w |-> 595, h |-> 842] }

PdfPool ==
    { [pages |-> ps, corrupt |-> c, bad_page |-> b] :
        ps \in SeqsUpTo(RectPool, MaxPages), c \in BOOLEAN, b \in 0..MaxPages }

\* A call convert_pdf_to_images(pdf_path, dpi) and a call
\* pdf_first_page_size_inches(pdf_path) on any small PDF
InitConvert ==
    /\ BuildIdle
    /\ CollectIdle
    /\ ConfirmIdle
    /\ NamesIdle
    /\ CliIdle
    /\ WebIdle
    /\ ServerIdle
    /\ pdf \in { doc \in PdfPool : doc.bad_page <= Len(doc.pages) }
    /\ temp_dirs = <<>>
    /\ convert = [NotConverted EXCEPT !.pc = "call"]
    /\ size_in = SizeNotAsked

NextConvert ==
    \/ Mkdtemp
    \/ ConvertFromPath
    \/ SavePage
    \/ ReturnPaths
    \/ HandleFailure
    \/ PdfFirstPageSizeInches

SpecConvert == InitConvert /\ [][NextConvert]_vars

\* Page numbers around each change in the number of digits
PageSamples == { 1, 2, 9, 10, 11, 99, 100, 101, 999, 1000, 1001, 9998, 9999, 10000, 10001 }

InitNames ==
    /\ BuildIdle
    /\ CollectIdle
    /\ ConfirmIdle
    /\ ConvertIdle
    /\ CliIdle
    /\ WebIdle
    /\ ServerIdle
    /\ page_numbers \in { <<i, j>> : i \in PageSamples, j \in PageSamples }
    /\ page_numbers[1] < page_numbers[2]
    /\ page_names = <<>>

\* The names of pages i and j as the loop of convert_pdf_to_images forms them
NamePages ==
    /\ page_names = <<>>
    /\ page_names' = <<page_name(page_numbers[1]), page_name(page_numbers[2])>>
    /\ UNCHANGED <<page_numbers, buildVars, collectVars, confirmVars, convertVars, cliVars,
                   web, server>>

NextNames == NamePages

SpecNames == InitNames /\ [][NextNames]_vars

----------------------------------------------------------------------------
(* Command line: main, process_folder (core.py:367-588).  An input path is  *)
(* a record: type, name, directory entries, content of a file (a PDF, or an  *)
(* image that is corrupt when it cannot be opened) and whether its output    *)
(* .pptx already exists.                                                     *)

\* A whole call convert_pdf_to_images(pdf_path, dpi) started with the temp
\* directories dirs: Mkdtemp, ConvertFromPath, SavePage..., then ReturnPaths
\* or HandleFailure
convert_pdf_to_images(doc, dirs) ==
    LET d == Len(dirs) + 1
        made == Append(dirs, [exists |-> TRUE, files |-> <<>>])
        names == [k \in 1..Len(doc.pages) |-> page_name(k)]
    IN  IF doc.corrupt \/ doc.bad_page \in 1..Len(doc.pages)
        THEN [raised |-> "RuntimeError", out_paths |-> <<>>, temp_dirs |-> rmtree(made, d)]
        ELSE [raised |-> "none",
              out_paths |-> [k \in 1..Len(names) |-> [dir |-> d, name |-> names[k]]],
              temp_dirs |-> [made EXCEPT ![d].files = names]]

\* A whole call build_presentation(images, out_path, ...), out_path in an
\* existing directory: it raises at the first image that cannot be placed and
\* saves the deck otherwise
build_presentation(imgs, unreadable) ==
    IF \E k \in 1..Len(imgs) : imgs[k] \in unreadable THEN "raised" ELSE "saved"

\* sorted(folder.glob("*.pdf")): the entries named *.pdf, by name
sorted_pdfs(folder) ==
    LET pdfs == { folder.entries[k] : k \in { x \in 1..Len(folder.entries) :
                     LET n == folder.entries[x].name
                     IN  Len(n) >= 4 /\ SubSeq(n, Len(n) - 3, Len(n)) = <<".", "p", "d", "f">> } }
    IN  CHOOSE r \in [1..Cardinality(pdfs) -> pdfs] :
            \A i, j \in 1..Cardinality(pdfs) : i < j => str_less(r[i].name, r[j].name)

\* The directories folder.rglob("*") yields: the subdirectories of folder,
\* then those of each of its subdirectories in turn, at every depth
rglob_dirs(folder) ==
    LET subdirs(d) == SelectSeq(d.entries, LAMBDA e : e.type = "dir")
        RECURSIVE walk(_)
        RECURSIVE walk_all(_)
        walk(d) == <<d>> \o walk_all(subdirs(d))
        walk_all(ds) == IF ds = <<>> THEN <<>> ELSE walk(Head(ds)) \o walk_all(Tail(ds))
        RECURSIVE children(_)
        children(ds) == IF ds = <<>> THEN <<>> ELSE subdirs(Head(ds)) \o children(Tail(ds))
    IN  children(walk(folder))

\* The canvas process_folder takes from the first image: 96 pixels to the
\* inch, the longer side as the width
DefaultDpi == 96

folder_canvas_unswapped(im) ==
    [w_in |-> FDiv(FromInt(im.w), FromInt(DefaultDpi)),
     h_in |-> FDiv(FromInt(im.h), FromInt(DefaultDpi))]

folder_canvas(im) ==
    LET w_in == FDiv(FromInt(im.w), FromInt(DefaultDpi))
        h_in == FDiv(FromInt(im.h), FromInt(DefaultDpi))
    IN  IF FLess(w_in, h_in) THEN [w_in |-> h_in, h_in |-> w_in]
        ELSE [w_in |-> w_in, h_in |-> h_in]

\* A deck written by build_presentation: the file it was made from, the
\* folder it is in, canvas and mode, whether it replaced an existing file
\* and whether confirm_overwrite had returned True for its path
Deck(name, from, folder, size, mode_, replaced, asked) ==
    [name |-> name, from |-> from, folder |-> folder, w_in |-> size.w_in,
     h_in |-> size.h_in, mode |-> mode_, replaced |-> replaced, confirmed |-> asked]

\* The loop of process_folder over targets; st is what the call did so far
RECURSIVE process_targets(_, _, _)
process_targets(folder, targets, st) ==
    IF targets = <<>> \/ st.raised # "none" THEN st
    ELSE LET item == Head(targets)
         IN  IF lower(suffix(item.name)) = <<".", "p", "d", "f">>
             THEN LET conv == convert_pdf_to_images(item.content, st.temp_dirs)
                      st1 == [st EXCEPT !.temp_dirs = conv.temp_dirs,
                                        !.converted = Append(@, item.name)]
                      deck == Deck(item.name, "pdf", folder.name,
                                   pdf_first_page_size_inches(item.content), "fit",
                                   item.out = "existing", FALSE)
                  IN  IF conv.raised # "none" THEN [st1 EXCEPT !.raised = conv.raised]
                      ELSE process_targets(folder, Tail(targets),
                                           [st1 EXCEPT !.decks = Append(@, deck)])
             ELSE LET imgs == list_images(folder)
                      unreadable == { imgs[k] : k \in { x \in 1..Len(imgs) :
                                                           imgs[x].content.corrupt } }
                      deck == Deck(folder.name, "images", folder.name,
                                   folder_canvas(imgs[1]), "fit", folder.out = "existing",
                                   FALSE)
                  IN  IF imgs = <<>> THEN process_targets(folder, Tail(targets), st)
                      ELSE IF imgs[1] \in unreadable
                      THEN [st EXCEPT !.raised = "UnidentifiedImageError"]
                      ELSE IF build_presentation(imgs, unreadable) = "raised"
                      THEN [st EXCEPT !.raised = "UnidentifiedImageError"]
                      ELSE process_targets(folder, Tail(targets),
                                           [st EXCEPT !.decks = Append(@, deck)])

\* process_folder(folder, recursive, dpi, quiet) started in the state st: with
\* recursive it first calls itself on every directory of folder.rglob("*")
RECURSIVE process_folder(_, _, _)
process_folder(folder, recursive, st) ==
    LET RECURSIVE process_subfolders(_, _)
        process_subfolders(subs, s) ==
            IF subs = <<>> \/ s.raised # "none" THEN s
            ELSE process_subfolders(Tail(subs), process_folder(Head(subs), recursive, s))
        pdfs == sorted_pdfs(folder)
        imgs == SelectSeq(folder.entries,
                          LAMBDA p : lower(suffix(p.name)) \in ALLOWED_EXTS)
        entered == [st EXCEPT !.visited = Append(@, folder.name)]
        back == IF recursive THEN process_subfolders(rglob_dirs(folder), entered)
                ELSE entered
        targets == IF pdfs # <<>> THEN pdfs ELSE IF imgs # <<>> THEN <<folder>> ELSE <<>>
    IN  IF back.raised # "none" THEN back
        ELSE process_targets(folder, targets,
                             IF pdfs # <<>> /\ imgs # <<>>
                             THEN [back EXCEPT !.warned = Append(@, folder.name)]
                             ELSE back)

\* Paths to give to main.  A path is a record: type, name, the entries of a
\* directory, the content of a file, the pixels of an image, and whether the
\* .pptx written for it exists already.
ItemPool ==
    LET page == [w |-> 612, h |-> 792]
        sound == [pages |-> <<page>>, corrupt |-> FALSE, bad_page |-> 0]
        broken == [sound EXCEPT !.corrupt = TRUE]
        item(t, n, es, c, o) ==
            [type |-> t, name |-> n, entries |-> es, content |-> c, out |-> o,
             w |-> 0, h |-> 0]
        file(n, c) == item("file", n, <<>>, c, "absent")
        image(n, c, w, h) == [file(n, c) EXCEPT !.w = w, !.h = h]
        png(c) == image(<<"a", ".", "p", "n", "g">>, c, 192, 96)
        tall == image(<<"B", ".", "p", "n", "g">>, NoPdf, 96, 288)
        d_pdf == <<"d", ".", "p", "d", "f">>
        b_pdf == <<"b", ".", "p", "d", "f">>
        sub == <<"s", "u", "b">>
        inner == item("dir", <<"i", "n">>, <<png(NoPdf)>>, NoPdf, "absent")
        outer == item("dir", <<"u", "p">>, <<inner, file(b_pdf, sound)>>, NoPdf, "absent")
    IN  { item("missing", d_pdf, <<>>, NoPdf, "absent"),
          file(<<"n", ".", "t", "x", "t">>, NoPdf),
          file(d_pdf, sound),
          item("file", d_pdf, <<>>, sound, "existing"),
          file(d_pdf, NoPdf),
          file(d_pdf, broken),
          item("dir", sub, <<png(NoPdf), tall>>, NoPdf, "existing"),
          item("dir", sub, <<tall>>, NoPdf, "absent"),
          item("dir", sub, <<png(broken)>>, NoPdf, "absent"),
          item("dir", sub, <<png(NoPdf), file(b_pdf, sound)>>, NoPdf, "absent"),
          item("dir", sub, <<png(NoPdf), file(<<"D", ".", "P", "D", "F">>, sound)>>, NoPdf,
               "absent"),
          item("dir", sub, <<png(NoPdf), file(d_pdf, sound), file(b_pdf, broken)>>, NoPdf,
               "absent"),
          item("dir", sub, <<png(NoPdf), outer>>, NoPdf, "absent"),
          item("dir", sub, <<file(b_pdf, sound), inner>>, NoPdf, "absent") }

\* A run of main on any short list of paths: given with --input, or, with no
\* --input, typed one after the other at the prompt of prompt_input_path; the
\* flags are only read in the non-interactive mode, stdin only by the prompt
\* of confirm_overwrite
InitCli ==
    /\ BuildIdle
    /\ CollectIdle
    /\ ConvertIdle
    /\ NamesIdle
    /\ args \in [input : SeqsUpTo(ItemPool, MaxInputs), interactive : BOOLEAN,
                 recursive : BOOLEAN]
    /\ ~args.interactive => args.input # <<>>
    /\ quiet \in BOOLEAN
    /\ force \in BOOLEAN
    /\ stdin \in SeqsUpTo({ <<"y">>, <<"n">> }, 1)
    /\ args.interactive => ~args.recursive /\ ~quiet /\ ~force
    /\ (args.interactive \/ quiet \/ force) => stdin = <<>>
    /\ prompts = 0
    /\ confirmed = "not_called"
    /\ cli = [NoRun EXCEPT !.pc = IF args.interactive THEN "prompt" ELSE "loop"]
    /\ WebIdle
    /\ ServerIdle

\* What main prints about input k
Message(k, text) == [input |-> k, text |-> text]

\* Names of process_folder tagged with the input they belong to
Tagged(k, names) == [x \in 1..Len(names) |-> [input |-> k, name |-> names[x]]]

\* One turn of the loop of the non-interactive mode (core.py:521-582)
MainItem ==
    /\ cli.pc = "loop"
    /\ cli.k < Len(args.input)
    /\ LET k == cli.k + 1
           p == args.input[k]
           say(text) == [cli EXCEPT !.k = k, !.messages = Append(@, Message(k, text))]
       IN  IF p.type = "missing"
           THEN /\ cli' = say("Input not found")
                /\ UNCHANGED <<temp_dirs, stdin, prompts>>
           ELSE IF detect_input_type(p) = "pdf"
           THEN LET conv == convert_pdf_to_images(p.content, temp_dirs)
                    temp_dir == IF conv.out_paths # <<>> THEN conv.out_paths[1].dir ELSE 0
                    out_path == [type |-> IF p.out = "existing" THEN "file" ELSE "missing",
                                 name |-> p.name]
                    co == confirm_overwrite(out_path, quiet, force, stdin)
                    deck == Deck(p.name, "pdf", <<>>, pdf_first_page_size_inches(p.content),
                                 "fit", p.out = "existing", TRUE)
                IN  IF conv.raised # "none"
                    THEN /\ cli' = [say("Failed to process")
                                       EXCEPT !.converted = Append(@, [input |-> k,
                                                                       name |-> p.name])]
                         /\ temp_dirs' = conv.temp_dirs
                         /\ UNCHANGED <<stdin, prompts>>
                    ELSE /\ temp_dirs' = IF temp_dir # 0 THEN rmtree(conv.temp_dirs, temp_dir)
                                         ELSE conv.temp_dirs
                         /\ stdin' = co.stdin
                         /\ prompts' = IF co.prompted THEN prompts + 1 ELSE prompts
                         /\ cli' = [IF co.result = "EOFError" THEN say("Failed to process")
                                    ELSE IF co.result = "False" THEN say("Skipped")
                                    ELSE [IF quiet THEN [cli EXCEPT !.k = k] ELSE say("Saved")
                                             EXCEPT !.decks = Append(@, [input |-> k,
                                                                         deck |-> deck])]
                                       EXCEPT !.converted = Append(@, [input |-> k,
                                                                       name |-> p.name])]
           ELSE IF detect_input_type(p) = "folder"
           THEN LET done == process_folder(p, args.recursive,
                                           [raised |-> "none", temp_dirs |-> temp_dirs,
                                            converted |-> <<>>, decks |-> <<>>,
                                            visited |-> <<>>, warned |-> <<>>])
                    told == IF done.raised # "none" THEN say("Folder failed")
                            ELSE [cli EXCEPT !.k = k]
                IN  /\ cli' = [told EXCEPT
                                  !.converted = @ \o Tagged(k, done.converted),
                                  !.visited = @ \o Tagged(k, done.visited),
                                  !.warned = @ \o Tagged(k, done.warned),
                                  !.decks = @ \o [x \in 1..Len(done.decks) |->
                                                     [input |-> k, deck |-> done.decks[x]]]]
                    /\ temp_dirs' = done.temp_dirs
                    /\ UNCHANGED <<stdin, prompts>>
           ELSE /\ cli' = say("Unsupported input")
                /\ UNCHANGED <<temp_dirs, stdin, prompts>>
    /\ UNCHANGED <<args, quiet, force, confirmed, pdf, convert, size_in, buildVars,
                   collectVars, nameVars, web, server>>

\* The loop is over: main returns and the process exits with status 0
MainReturn ==
    /\ cli.pc = "loop"
    /\ cli.k = Len(args.input)
    /\ cli' = [cli EXCEPT !.pc = "exit", !.status = 0]
    /\ UNCHANGED <<args, confirmVars, convertVars, buildVars, collectVars, nameVars, web, server>>

\* One turn of the loop of prompt_input_path (core.py:66-73): input() raises
\* EOFError when nothing more is typed, which nothing catches
PromptInputPath ==
    /\ cli.pc = "prompt"
    /\ IF cli.k = Len(args.input)
       THEN cli' = [cli EXCEPT !.pc = "exit", !.status = 1,
                               !.messages = Append(@, Message(cli.k, "EOFError"))]
       ELSE IF args.input[cli.k + 1].type = "missing"
       THEN cli' = [cli EXCEPT !.k = @ + 1,
                               !.messages = Append(@, Message(cli.k + 1, "does not exist"))]
       ELSE cli' = [cli EXCEPT !.k = @ + 1, !.pc = "interactive"]
    /\ UNCHANGED <<args, confirmVars, convertVars, buildVars, collectVars, nameVars, web, server>>

\* The interactive mode once in_path is known (core.py:446-518); slide size
\* and mode are what the user answers at the prompts
MainInteractive ==
    /\ cli.pc = "interactive"
    /\ LET k == cli.k
           in_path == args.input[k]
           in_kind == detect_input_type(in_path)
           exit(n, text) == [cli EXCEPT !.pc = "exit", !.status = n,
                                        !.messages = Append(@, Message(k, text))]
           deck == Deck(in_path.name, IF in_kind = "pdf" THEN "pdf" ELSE "images", <<>>,
                        [w_in |-> FZero, h_in |-> FZero], "asked",
                        in_path.out = "existing", FALSE)
           saved == [exit(0, "Presentation saved")
                        EXCEPT !.decks = Append(@, [input |-> k, deck |-> deck])]
       IN  IF in_kind = "unknown"
           THEN /\ cli' = exit(1, "not a PDF or an image folder")
                /\ UNCHANGED temp_dirs
           ELSE IF in_kind = "pdf"
           THEN LET conv == convert_pdf_to_images(in_path.content, temp_dirs)
                    temp_dir == IF conv.out_paths # <<>> THEN conv.out_paths[1].dir ELSE 0
                IN  /\ cli' = [IF conv.raised # "none"
                               THEN exit(1, "Failed to create presentation")
                               ELSE saved
                                  EXCEPT !.converted =
                                            Append(@, [input |-> k, name |-> in_path.name])]
                    /\ temp_dirs' = IF temp_dir # 0 THEN rmtree(conv.temp_dirs, temp_dir)
                                    ELSE conv.temp_dirs
           ELSE LET imgs == list_images(in_path)
                    unreadable == { imgs[x] : x \in { y \in 1..Len(imgs) :
                                                         imgs[y].content.corrupt } }
                IN  /\ cli' = IF imgs = <<>> THEN exit(1, "No images found")
                              ELSE IF build_presentation(imgs, unreadable) = "raised"
                              THEN exit(1, "Failed to create presentation")
                              ELSE saved
                    /\ UNCHANGED temp_dirs
    /\ UNCHANGED <<args, confirmVars, pdf, convert, size_in, buildVars, collectVars,
                   nameVars, web, server>>

NextCli == MainItem \/ MainReturn \/ PromptInputPath \/ MainInteractive

SpecCli == InitCli /\ [][NextCli]_vars

----------------------------------------------------------------------------
(* Properties of PDF rasterization *)

\* C14 as claimed: the file names given to the pages sort lexically in page
\* order, for any two page numbers i < j.
C14_PageNamesSortInPageOrder ==
    page_names # <<>> => str_less(page_names[1], page_names[2])

\* The temp directories that still exist
LiveTempDirs == { d \in 1..Len(temp_dirs) : temp_dirs[d].exists }

\* C15: for a PDF without pages convert_pdf_to_images returns an empty list
\* and pdf_first_page_size_inches returns (13.3333, 7.5); for a PDF with
\* pages the size is the rectangle of the first page divided by 72 on each
\* axis (the float nearest to the quotient).
C15_ZeroPagesAndFirstPageSize ==
    /\ (pdf.pages = <<>> /\ ~pdf.corrupt) =>
          /\ convert.pc # "raised" /\ size_in.raised = "none"
          /\ convert.pc = "returned" => convert.out_paths = <<>>
    /\ (size_in.called /\ size_in.raised = "none") =>
          IF pdf.pages = <<>>
          THEN /\ size_in.w_in = RoundNearestEven(133333, 10000, 0)
               /\ size_in.h_in = RoundNearestEven(75, 10, 0)
          ELSE /\ size_in.w_in = RoundNearestEven(pdf.pages[1].w, 72, 0)
               /\ size_in.h_in = RoundNearestEven(pdf.pages[1].h, 72, 0)

C15_Witness ==
    /\ pdf.pages = <<>> /\ ~pdf.corrupt
    /\ convert.pc = "returned" /\ convert.out_paths = <<>>
    /\ size_in.called /\ size_in.w_in = FallbackSize[1] /\ size_in.h_in = FallbackSize[2]

\* C16: when rendering fails, or saving page k fails after pages 1..k-1 were
\* written, convert_pdf_to_images ends by raising RuntimeError carrying the
\* cause, and by then the temp directory it made and every page file in it
\* are gone; a failing call never returns paths.
C16_FailureRemovesTempDir ==
    /\ (pdf.corrupt \/ pdf.bad_page > 0) => convert.pc # "returned"
    /\ convert.pc = "raised" =>
          /\ convert.raised = "RuntimeError"
          /\ convert.cause = IF pdf.corrupt THEN "PDFSyntaxError" ELSE "OSError"
          /\ LiveTempDirs = {}
          /\ \A d \in 1..Len(temp_dirs) : temp_dirs[d].files = <<>>

C16_Witness ==
    /\ convert.pc = "raised" /\ convert.cause = "OSError"
    /\ pdf.bad_page = 3 /\ Len(convert.out_paths) = 2
    /\ LiveTempDirs = {}

----------------------------------------------------------------------------
(* Web front end: process_files (web.py:68-182).  An uploaded file is a     *)
(* record: name, content of a PDF, the image of an image file.  Lengths are  *)
(* whole inches here: Inches(x) is int(x), a rendered page has the size of   *)
(* its page.                                                                  *)

UploadPool ==
    LET page == [w |-> 612, h |-> 792]
        sound == [pages |-> <<page>>, corrupt |-> FALSE, bad_page |-> 0]
        upload(n, c, i) == [name |-> n, content |-> c, id |-> i.id, w |-> i.w, h |-> i.h]
        d_pdf == <<"d", ".", "P", "D", "F">>
    IN  { upload(<<"b", ".", "p", "n", "g">>, NoPdf, [id |-> 1, w |-> 4, h |-> 2]),
          upload(<<"a", ".", "p", "n", "g">>, NoPdf, [id |-> 4, w |-> 0, h |-> 4]),
          upload(d_pdf, sound, [id |-> 0, w |-> 0, h |-> 0]),
          upload(d_pdf, [sound EXCEPT !.pages = <<page, page>>, !.bad_page = 2],
                 [id |-> 0, w |-> 0, h |-> 0]),
          upload(<<"e", ".", "p", "d", "f">>, [sound EXCEPT !.pages = <<page, page>>],
                 [id |-> 0, w |-> 0, h |-> 0]),
          upload(d_pdf, [sound EXCEPT !.corrupt = TRUE], [id |-> 0, w |-> 0, h |-> 0]),
          upload(d_pdf, NoPdf, [id |-> 0, w |-> 0, h |-> 0]) }

\* A call process_files(files, slide_size, fit_mode, dpi, output_name)
InitWeb ==
    /\ BuildIdle
    /\ CollectIdle
    /\ ConfirmIdle
    /\ ConvertIdle
    /\ NamesIdle
    /\ CliIdle
    /\ ServerIdle
    /\ \E fs \in SeqsUpTo(UploadPool, MaxUploads), c \in CanvasPool, m \in {"fit", "fill"} :
          web = [NoUpload EXCEPT !.pc = "call", !.files = fs, !.slide_size = c,
                                 !.fit_mode = m]

is_pdf(file) == lower(suffix(file.name)) = <<".", "p", "d", "f">>

\* Up to the loop over files (web.py:88-122): nothing to do without files;
\* the working directory is made; width_in, height_in are those of the
\* preset, or of the first page when the upload is a single PDF
WebStart_auto_first_pdf ==
    /\ web.pc = "call"
    /\ LET auto == is_pdf(web.files[1])
           size == pdf_first_page_size_inches(web.files[1].content)
       IN  web' = IF web.files = <<>> THEN [web EXCEPT !.pc = "returned"]
                  ELSE IF auto /\ size.raised # "none"
                  THEN [web EXCEPT !.pc = "raised", !.temp_dir = TRUE, !.raised = "gr.Error"]
                  ELSE IF auto
                  THEN [web EXCEPT !.pc = "files", !.temp_dir = TRUE,
                                   !.width_in = ToInt(size.w_in),
                                   !.height_in = ToInt(size.h_in)]
                  ELSE [web EXCEPT !.pc = "files", !.temp_dir = TRUE,
                                   !.width_in = web.slide_size[1],
                                   !.height_in = web.slide_size[2]]
    /\ UNCHANGED <<buildVars, collectVars, confirmVars, convertVars, nameVars, cliVars, server>>

WebStart ==
    /\ web.pc = "call"
    /\ LET auto == Len(web.files) = 1 /\ is_pdf(web.files[1])
           size == pdf_first_page_size_inches(web.files[1].content)
       IN  web' = IF web.files = <<>> THEN [web EXCEPT !.pc = "returned"]
                  ELSE IF auto /\ size.raised # "none"
                  THEN [web EXCEPT !.pc = "raised", !.temp_dir = TRUE, !.raised = "gr.Error"]
                  ELSE IF auto
                  THEN [web EXCEPT !.pc = "files", !.temp_dir = TRUE,
                                   !.width_in = ToInt(size.w_in),
                                   !.height_in = ToInt(size.h_in)]
                  ELSE [web EXCEPT !.pc = "files", !.temp_dir = TRUE,
                                   !.width_in = web.slide_size[1],
                                   !.height_in = web.slide_size[2]]
    /\ UNCHANGED <<buildVars, collectVars, confirmVars, convertVars, nameVars, cliVars, server>>

\* One turn of the loop over files (web.py:124-139).  The image of page k
\* of the file at position f has id 10 * f + k.
WebFile ==
    /\ web.pc = "files"
    /\ web.k < Len(web.files)
    /\ LET file == web.files[web.k + 1]
           conv == convert_pdf_to_images(file.content, temp_dirs)
           page_image(k) ==
               [name |-> conv.out_paths[k].name, content |-> NoPdf,
                id |-> 10 * (web.k + 1) + k,
                w |-> file.content.pages[k].w \div PointsPerInch,
                h |-> file.content.pages[k].h \div PointsPerInch]
       IN  IF is_pdf(file)
           THEN /\ temp_dirs' = conv.temp_dirs
                /\ web' = IF conv.raised # "none"
                          THEN [web EXCEPT !.pc = "raised", !.raised = "gr.Error"]
                          ELSE [web EXCEPT !.k = @ + 1,
                                   !.image_files = @ \o [k \in 1..Len(conv.out_paths)
                                                            |-> page_image(k)]]
           ELSE /\ web' = [web EXCEPT !.k = @ + 1, !.image_files = Append(@, file)]
                /\ UNCHANGED temp_dirs
    /\ UNCHANGED <<pdf, convert, size_in, buildVars, collectVars, confirmVars, nameVars,
                   cliVars, server>>

\* After the loop (web.py:141-172): nothing to build without images; the
\* images are sorted by lower-cased name and build_presentation is called on
\* a path in the working directory
WebBuild ==
    /\ web.pc = "files"
    /\ web.k = Len(web.files)
    /\ IF web.image_files = <<>>
       THEN /\ web' = [web EXCEPT !.pc = "returned"]
            /\ UNCHANGED buildVars
       ELSE /\ web' = [web EXCEPT !.pc = "build", !.image_files = sort(@)]
            /\ images' = sort(web.image_files)
            /\ sw_emu' = web.width_in
            /\ sh_emu' = web.height_in
            /\ mode' = web.fit_mode
            /\ pc' = "call"
            /\ UNCHANGED <<slides, outfile, nsaves, raised, parent_exists>>
    /\ UNCHANGED <<collectVars, confirmVars, convertVars, nameVars, cliVars, server>>

\* return str(output_path) (web.py:174-175)
WebReturn ==
    /\ web.pc = "build"
    /\ pc = "done"
    /\ web' = [web EXCEPT !.pc = "returned", !.output = "output_path"]
    /\ UNCHANGED <<buildVars, collectVars, confirmVars, convertVars, nameVars, cliVars, server>>

WebExcept_swallowing ==
    /\ web.pc = "build"
    /\ pc = "raised"
    /\ web' = [web EXCEPT !.pc = "returned"]
    /\ UNCHANGED <<buildVars, collectVars, confirmVars, convertVars, nameVars, cliVars, server>>

\* except Exception as e: raise gr.Error(...) around build_presentation
\* (web.py:177-182)
WebExcept ==
    /\ web.pc = "build"
    /\ pc = "raised"
    /\ web' = [web EXCEPT !.pc = "raised", !.raised = "gr.Error"]
    /\ UNCHANGED <<buildVars, collectVars, confirmVars, convertVars, nameVars, cliVars, server>>

NextWeb ==
    \/ WebStart
    \/ WebFile
    \/ WebBuild
    \/ Presentation
    \/ AddSlide
    \/ Save
    \/ WebReturn
    \/ WebExcept

SpecWeb == InitWeb /\ [][NextWeb]_vars

----------------------------------------------------------------------------
(* The web front end as a server: process_files calls running at the same   *)
(* time (web.py:40-65, 104-107, 165-175, 520-524).  server.tmp is the        *)
(* system temp directory: the directories ever made in it, in order of       *)
(* creation, a removed one included; a call's deck is its local prs.         *)

\* tempfile.mkdtemp(prefix="pptx_builder_"): a directory that did not exist
tempfile_mkdtemp_reusing(tmp) ==
    [tmp |-> IF tmp = <<>>
             THEN <<[exists |-> TRUE, old |-> FALSE, files |-> <<>>]>>
             ELSE [tmp EXCEPT ![1].exists = TRUE],
     dir |-> 1]

tempfile_mkdtemp(tmp) ==
    [tmp |-> Append(tmp, [exists |-> TRUE, old |-> FALSE, files |-> <<>>]),
     dir |-> Len(tmp) + 1]

\* What a user uploads in one call: images by id, and the output name
CallPool ==
    { [files |-> <<>>, output_name |-> "presentation.pptx"],
      [files |-> <<1>>, output_name |-> "presentation.pptx"],
      [files |-> <<2, 1>>, output_name |-> "presentation.pptx"],
      [files |-> <<2>>, output_name |-> "a.pptx"] }

\* The temp directory when the server starts: empty, or with a directory a
\* previous run left, older or younger than an hour
TmpPool ==
    LET left(old) == [exists |-> TRUE, old |-> old,
                      files |-> <<[name |-> "presentation.pptx", slides |-> <<1>>]>>]
    IN  { <<>>, <<left(TRUE)>>, <<left(FALSE)>> }

InitServer ==
    /\ BuildIdle
    /\ CollectIdle
    /\ ConfirmIdle
    /\ ConvertIdle
    /\ NamesIdle
    /\ CliIdle
    /\ WebIdle
    /\ \E tmp \in TmpPool, cs \in [1..MaxCalls -> CallPool] :
          server = [pc |-> "startup", tmp |-> tmp, TEMP_DIRS |-> <<>>,
                    calls |-> [c \in 1..MaxCalls |->
                                 [pc |-> "call", files |-> cs[c].files,
                                  output_name |-> cs[c].output_name, temp_dir |-> 0,
                                  prs |-> <<>>, output |-> "None"]]]

\* cleanup_old_files(), then app.launch (web.py:52-61, 520-524)
cleanup_old_files(tmp) ==
    [d \in 1..Len(tmp) |-> IF tmp[d].exists /\ tmp[d].old
                           THEN [tmp[d] EXCEPT !.exists = FALSE, !.files = <<>>]
                           ELSE tmp[d]]

ServerStartup ==
    /\ server.pc = "startup"
    /\ server' = [server EXCEPT !.pc = "serving", !.tmp = cleanup_old_files(@)]
    /\ UNCHANGED <<buildVars, collectVars, confirmVars, convertVars, nameVars, cliVars, web>>

\* process_files up to build_presentation's prs = Presentation()
\* (web.py:88-107; core.py:208)
ServerCall(c) ==
    /\ server.pc = "serving"
    /\ server.calls[c].pc = "call"
    /\ LET made == tempfile_mkdtemp(server.tmp)
       IN  server' = IF server.calls[c].files = <<>>
                     THEN [server EXCEPT !.calls[c].pc = "returned"]
                     ELSE [server EXCEPT !.tmp = made.tmp,
                                         !.TEMP_DIRS = Append(@, made.dir),
                                         !.calls[c].temp_dir = made.dir,
                                         !.calls[c].pc = "build"]
    /\ UNCHANGED <<buildVars, collectVars, confirmVars, convertVars, nameVars, cliVars, web>>

\* One iteration of build_presentation's loop on the call's own prs
\* (core.py:218-223)
ServerAddSlide(c) ==
    /\ server.calls[c].pc = "build"
    /\ Len(server.calls[c].prs) < Len(server.calls[c].files)
    /\ server' = [server EXCEPT !.calls[c].prs =
                                   Append(@, server.calls[c].files[Len(@) + 1])]
    /\ UNCHANGED <<buildVars, collectVars, confirmVars, convertVars, nameVars, cliVars, web>>

\* prs.save(str(output_path)) with output_path = temp_dir / output_filename
\* (web.py:162, core.py:227): the file of that name in that directory is
\* written, replacing one that is there
ServerSave(c) ==
    /\ server.calls[c].pc = "build"
    /\ Len(server.calls[c].prs) = Len(server.calls[c].files)
    /\ LET call == server.calls[c]
           deck == [name |-> call.output_name, slides |-> call.prs]
           others == SelectSeq(server.tmp[call.temp_dir].files,
                               LAMBDA f : f.name # call.output_name)
       IN  server' = [server EXCEPT !.tmp[call.temp_dir].files = Append(others, deck),
                                    !.calls[c].pc = "saved"]
    /\ UNCHANGED <<buildVars, collectVars, confirmVars, convertVars, nameVars, cliVars, web>>

\* return str(output_path) (web.py:175)
ServerReturn(c) ==
    /\ server.calls[c].pc = "saved"
    /\ server' = [server EXCEPT !.calls[c].pc = "returned",
                                !.calls[c].output = "output_path"]
    /\ UNCHANGED <<buildVars, collectVars, confirmVars, convertVars, nameVars, cliVars, web>>

\* The interpreter exits once no call is running: cleanup_temp_files()
\* (web.py:44-49, 65)
cleanup_temp_files(tmp, dirs) ==
    [d \in 1..Len(tmp) |-> IF (\E x \in 1..Len(dirs) : dirs[x] = d) /\ tmp[d].exists
                           THEN [tmp[d] EXCEPT !.exists = FALSE, !.files = <<>>]
                           ELSE tmp[d]]

ServerExit ==
    /\ server.pc = "serving"
    /\ \A c \in 1..MaxCalls : server.calls[c].pc \in {"call", "returned"}
    /\ server' = [server EXCEPT !.pc = "exited",
                                !.tmp = cleanup_temp_files(@, server.TEMP_DIRS),
                                !.TEMP_DIRS = <<>>]
    /\ UNCHANGED <<buildVars, collectVars, confirmVars, convertVars, nameVars, cliVars, web>>

NextServer ==
    \/ ServerStartup
    \/ \E c \in 1..MaxCalls : ServerCall(c)
    \/ \E c \in 1..MaxCalls : ServerAddSlide(c)
    \/ \E c \in 1..MaxCalls : ServerSave(c)
    \/ \E c \in 1..MaxCalls : ServerReturn(c)
    \/ ServerExit

SpecServer == InitServer /\ [][NextServer]_vars

----------------------------------------------------------------------------
(* Properties of the web front end *)

\* The uploaded file cannot be rasterized, or its image cannot be placed
FailingUpload(file) ==
    IF EndsWithExt(file.name, <<".", "p", "d", "f">>)
    THEN file.content.corrupt \/ file.content.bad_page > 0
    ELSE file.w = 0 \/ file.h = 0

C25_CanvasFromSinglePdfOrPreset ==
    LET canvas == IF Len(web.files) = 1 /\ EndsWithExt(web.files[1].name, <<".", "p", "d", "f">>)
                  THEN <<web.files[1].content.pages[1].w \div PointsPerInch,
                         web.files[1].content.pages[1].h \div PointsPerInch>>
                  ELSE web.slide_size
    IN  /\ web.pc = "build" => <<sw_emu, sh_emu>> = canvas
        /\ outfile.content = "deck" => <<outfile.width, outfile.height>> = canvas

C25_Witness ==
    /\ web.pc = "returned" /\ web.output # "None" /\ outfile.content = "deck"
    /\ Len(web.files) = 1 /\ EndsWithExt(web.files[1].name, <<".", "p", "d", "f">>)
    /\ <<outfile.width, outfile.height>> = <<8, 11>>
    /\ web.slide_size = <<5, 13>>

\* C28 as claimed: in the deck process_files builds from several files, the
\* pages of one uploaded PDF are in page order and next to each other: no
\* slide of another file comes between two of them.
C28_PdfPagesContiguous ==
    (web.pc = "build" /\ Len(web.files) > 1) =>
        \A i, j \in 1..Len(images) :
            (/\ i < j /\ images[i].id >= 10
             /\ images[i].id \div 10 = images[j].id \div 10) =>
                /\ images[i].id < images[j].id
                /\ \A m \in i..j : images[m].id \div 10 = images[i].id \div 10

----------------------------------------------------------------------------
(* Properties of the command line *)

\* C17 as claimed: when main is over, every temp directory made by a
\* successful convert_pdf_to_images call has been removed, whatever the exit
\* path (success, failure, declined overwrite, a PDF without pages).
C17_TempDirsRemovedByCaller ==
    cli.pc = "exit" => LiveTempDirs = {}

\* The PDFs process_folder takes as targets in the folder p
PdfTargets(p) ==
    { p.entries[x].name : x \in { y \in 1..Len(p.entries) :
                                     suffix(p.entries[y].name) = <<".", "p", "d", "f">> } }

\* C18 as claimed: in non-interactive mode every input path is handled, also
\* after a failing one, and in every folder handed to process_folder every
\* PDF is converted (or its conversion attempted), also after a failing one.
C18_BatchNotAborted ==
    (cli.pc = "exit" /\ ~args.interactive) =>
        /\ cli.k = Len(args.input)
        /\ \A k \in 1..Len(args.input) :
              detect_input_type(args.input[k]) = "folder" =>
                  \A n \in PdfTargets(args.input[k]) :
                      \E x \in 1..Len(cli.converted) :
                          cli.converted[x] = [input |-> k, name |-> n]

\* The path is an unrecoverable failure: it is not found, it is unsupported
\* (neither a PDF nor a folder with images), or it is a PDF whose conversion
\* fails
Unrecoverable(p) ==
    \/ p.type = "missing"
    \/ p.type = "file" /\ ~EndsWithExt(p.name, <<".", "p", "d", "f">>)
    \/ p.type = "dir" /\ \A x \in 1..Len(p.entries) : ~SupportedImage(p.entries[x])
    \/ p.type = "file" /\ (p.content.corrupt \/ p.content.bad_page > 0)

\* C20 as claimed: when main is over and a path it handled was an
\* unrecoverable failure, the exit status is not 0 and a message about that
\* path was printed, in interactive and in non-interactive mode.
C20_NonZeroExitOnFailure ==
    cli.pc = "exit" =>
        \A k \in 1..cli.k :
            (Unrecoverable(args.input[k])
               /\ (args.interactive => args.input[k].type # "missing")) =>
                /\ cli.status # 0
                /\ \E x \in 1..Len(cli.messages) : cli.messages[x].input = k

\* The run of main is over, it was not interactive, and input k was a folder
\* that process_folder went through without an exception
FolderDone(k) ==
    /\ cli.pc = "exit" /\ ~args.interactive
    /\ detect_input_type(args.input[k]) = "folder"
    /\ \A x \in 1..Len(cli.messages) : cli.messages[x] # Message(k, "Folder failed")

\* The decks written for input k
DecksOf(k) == { cli.decks[x].deck : x \in { y \in 1..Len(cli.decks) : cli.decks[y].input = k } }

\* C21 as claimed: when the folder given to process_folder directly holds both
\* PDFs (files named .pdf in any case) and supported images, one deck is
\* built from each PDF, no deck is built from the images of that folder, and
\* the warning is printed.
C21_MixedFolderPdfsOnly ==
    \A k \in 1..Len(args.input) :
        LET p == args.input[k]
            pdfs == { p.entries[x] : x \in { y \in 1..Len(p.entries) :
                        /\ p.entries[y].type = "file"
                        /\ EndsWithExt(p.entries[y].name, <<".", "p", "d", "f">>) } }
        IN  (FolderDone(k) /\ pdfs # {}) =>
                /\ \A e \in pdfs : \E d \in DecksOf(k) :
                      d.from = "pdf" /\ d.name = e.name /\ d.folder = p.name
                /\ \A d \in DecksOf(k) : ~(d.from = "images" /\ d.folder = p.name)
                /\ \E x \in 1..Len(cli.warned) : cli.warned[x] = [input |-> k, name |-> p.name]

C26_ImageFolderCanvas ==
    ~args.interactive =>
        \A x \in 1..Len(cli.decks) :
            LET d == cli.decks[x].deck
                p == args.input[cli.decks[x].input]
                imgs == { p.entries[i] : i \in { j \in 1..Len(p.entries) :
                                                    SupportedImage(p.entries[j]) } }
                first == CHOOSE e \in imgs :
                            \A o \in imgs : ~str_less(lower(o.name), lower(e.name))
                long == IF first.w < first.h THEN first.h ELSE first.w
                short == IF first.w < first.h THEN first.w ELSE first.h
            IN  d.from = "images" =>
                    /\ d.mode = "fit"
                    /\ ~FLess(d.w_in, d.h_in) /\ FLess(FZero, d.h_in)
                    /\ d.folder = p.name =>
                          /\ d.w_in = RoundNearestEven(long, 96, 0)
                          /\ d.h_in = RoundNearestEven(short, 96, 0)

C26_Witness ==
    /\ cli.pc = "exit" /\ ~args.interactive /\ Len(cli.decks) = 1
    /\ cli.decks[1].deck.from = "images"
    /\ Len(args.input[1].entries) = 1 /\ args.input[1].entries[1].w = 96
    /\ cli.decks[1].deck.w_in = FromInt(3) /\ cli.decks[1].deck.h_in = FromInt(1)

\* The names of the directories of the tree under p, p included
RECURSIVE TreeDirs(_)
TreeDirs(p) ==
    {p.name} \cup UNION { TreeDirs(p.entries[x]) :
                            x \in { y \in 1..Len(p.entries) : p.entries[y].type = "dir" } }

\* C27 as claimed: with --recursive, process_folder goes through the folder
\* given to main and through every directory of the tree under it exactly
\* once.
C27_EachFolderOnce ==
    \A k \in 1..Len(args.input) :
        (FolderDone(k) /\ args.recursive) =>
            \A n \in TreeDirs(args.input[k]) :
                Cardinality({ x \in 1..Len(cli.visited) :
                                cli.visited[x] = [input |-> k, name |-> n] }) = 1

\* C29 as claimed: a deck that replaced an existing file was written after
\* confirm_overwrite had returned True for its path, on every path of main
\* that writes a deck.
C29_OverwriteOnlyAfterConfirm ==
    \A x \in 1..Len(cli.decks) : cli.decks[x].deck.replaced => cli.decks[x].deck.confirmed

\* C30: in the non-interactive mode process_folder is entered for a
\* directory given to main only when the directory directly holds a
\* supported image file; any other directory, one with PDFs and subfolders
\* included, gets the message Unsupported input and nothing of it is
\* converted, visited or written, with or without --recursive.
C30_DirectoryNeedsImage ==
    ~args.interactive =>
        \A k \in 1..cli.k :
            LET p == args.input[k]
                tagged(seq) == { x \in 1..Len(seq) : seq[x].input = k }
            IN  p.type = "dir" =>
                    IF \E x \in 1..Len(p.entries) : SupportedImage(p.entries[x])
                    THEN \E x \in tagged(cli.visited) : cli.visited[x].name = p.name
                    ELSE /\ \E x \in tagged(cli.messages) :
                               cli.messages[x].text = "Unsupported input"
                         /\ tagged(cli.visited) = {} /\ tagged(cli.converted) = {}
                         /\ tagged(cli.decks) = {}

C30_Witness ==
    /\ cli.pc = "exit" /\ args.recursive /\ Len(args.input) = 1
    /\ args.input[1].type = "dir" /\ Len(args.input[1].entries) = 2
    /\ args.input[1].entries[1].name = <<"b", ".", "p", "d", "f">>
    /\ args.input[1].entries[2].type = "dir"
    /\ cli.messages = <<Message(1, "Unsupported input")>>
    /\ cli.visited = <<>> /\ cli.decks = <<>>

====
